---------------------------- MODULE Spec2Model ----------------------------
(***************************************************************************)
(* Model of pyxel-engine's resource persistence (resource_data.rs):        *)
(* ResourceData::from_runtime / to_runtime / to_toml / from_toml and the   *)
(* per-category adapters (ImageData, TilemapData, WaveformData,            *)
(* ChannelData, SoundData, MusicData).                                     *)
(*                                                                         *)
(* Specifications:                                                         *)
(*   Spec          one call of from_runtime / to_runtime, any flags        *)
(*   SpecToml      to_toml, from_toml, to_runtime on the parsed data       *)
(*   SpecVersions  sequences of from_toml / to_runtime / from_runtime      *)
(*   SpecColors    palette capture / apply over bounded palettes           *)
(*   SpecTilemaps  tilemap capture / apply over bounded tilemaps           *)
(*   SpecConc      threads running from_runtime / to_runtime / a reader,   *)
(*                 one lock step at a time (FairConc adds weak fairness)   *)
(***************************************************************************)
EXTENDS Integers, Sequences, FiniteSets, TLC

VARIABLES
    pyxel,        \* the runtime pools: one list per category
    snap,         \* the ResourceData the caller holds (self)
    text,         \* the last TOML text produced by to_toml (<<>>: none)
    last,         \* the caller's current or last call: [op, flags, ok, pre,
                  \* self, cat, done, acc]
    capturedFrom, \* <<p>>: snap was returned by from_runtime(p) (<<>>: not)
    nops,         \* number of calls made
    peer,         \* the call of a second caller on the same runtime
    rendered,     \* <<[flags, self]>>: text = self.to_toml(flags) (<<>>: not)
    pool,         \* SpecConc: category -> list of shared element ids
    held,         \* SpecConc: thread -> stack of locks held, oldest first
    thr,          \* SpecConc: thread -> its position and locals
    acquired      \* SpecConc: thread -> category -> pool lock acquisitions

seqVars  == <<pyxel, snap, text, last, capturedFrom, nops, rendered, peer>>
concVars == <<pool, held, thr, acquired>>
vars     == <<pyxel, snap, text, last, capturedFrom, nops, rendered, peer,
              pool, held, thr, acquired>>

----------------------------------------------------------------------------
(* Bounds of the model *)

MaxCalls == 3      \* calls per behaviour of SpecVersions / SpecColors
MaxPalette == 2    \* palette length in SpecColors
MaxW == 2          \* tilemap width in SpecTilemaps
MaxH == 2          \* tilemap height in SpecTilemaps

(* settings::RESOURCE_FORMAT_VERSION (imported at line 8): the engine's
   current format version *)
RESOURCE_FORMAT_VERSION == 4

Categories ==
    {"colors", "images", "tilemaps", "channels", "sounds", "musics", "waveforms"}

(* the order of the category blocks in from_runtime and to_runtime *)
CatOrder == <<"colors", "images", "tilemaps", "channels", "sounds", "musics", "waveforms">>

NCats == Len(CatOrder)

FlagNames ==
    {"exclude_images", "exclude_tilemaps", "exclude_sounds", "exclude_musics",
     "include_colors", "include_channels", "include_waveforms"}

Flags == [FlagNames -> BOOLEAN]

----------------------------------------------------------------------------
(* Generic sequence helpers *)

RECURSIVE Flatten(_)
Flatten(rows) ==
    IF rows = <<>> THEN <<>> ELSE Head(rows) \o Flatten(Tail(rows))

(* the pieces slice::chunks(n) yields for n >= 1: consecutive runs of n
   elements, the last one shorter *)
RECURSIVE Pieces(_, _)
Pieces(s, n) ==
    IF s = <<>> THEN <<>>
    ELSE IF Len(s) <= n THEN <<s>>
    ELSE <<SubSeq(s, 1, n)>> \o Pieces(SubSeq(s, n + 1, Len(s)), n)

(* slice::chunks(n): panics ("chunk size must be non-zero") when n = 0, on
   the empty slice too; [ok |-> FALSE] is that panic *)
Chunks(s, n) ==
    IF n = 0 THEN [ok |-> FALSE, val |-> <<>>]
    ELSE [ok |-> TRUE, val |-> Pieces(s, n)]

----------------------------------------------------------------------------
(* utils::compress_vec2 / expand_vec2 (2-D grid codec): a run of equal
   trailing elements is cut to one, in every row and then over the rows;
   expansion repeats the last element up to the stored length. *)

RECURSIVE compress_vec(_)
compress_vec(v) ==
    IF Len(v) > 1 /\ v[Len(v)] = v[Len(v) - 1]
    THEN compress_vec(SubSeq(v, 1, Len(v) - 1))
    ELSE v

compress_vec2(rows) == compress_vec([i \in 1..Len(rows) |-> compress_vec(rows[i])])

expand_vec(v, len) ==
    IF v = <<>> THEN <<>>
    ELSE [i \in 1..len |-> IF i <= Len(v) THEN v[i] ELSE v[Len(v)]]

expand_vec2(rows, len1, len2) ==
    expand_vec([i \in 1..Len(rows) |-> expand_vec(rows[i], len2)], len1)

----------------------------------------------------------------------------
(* Colors: format!("{:06X}") and u32::from_str_radix(_, 16) *)

HexDigits == <<"0","1","2","3","4","5","6","7","8","9","A","B","C","D","E","F">>
LowerDigits == <<"a","b","c","d","e","f">>

(* u32 holds at most 8 significant hexadecimal digits *)
U32HexDigits == 8

RECURSIVE UpperHex(_)
UpperHex(v) ==
    IF v < 16 THEN <<HexDigits[v + 1]>>
    ELSE UpperHex(v \div 16) \o <<HexDigits[(v % 16) + 1]>>

RECURSIVE ZeroPad(_, _)
ZeroPad(s, width) == IF Len(s) >= width THEN s ELSE ZeroPad(<<"0">> \o s, width)

(* mutant: "{:X}", without the zero padding *)
format_X(color) == UpperHex(color)

(* format!("{:06X}", color): uppercase hex, zero-padded to at least 6 digits *)
format_06X(color) == ZeroPad(UpperHex(color), 6)

(* char::to_digit(16): -1 when the character is no hexadecimal digit *)
DigitValue(c) ==
    IF \E i \in 1..16 : HexDigits[i] = c
    THEN (CHOOSE i \in 1..16 : HexDigits[i] = c) - 1
    ELSE IF \E i \in 1..6 : LowerDigits[i] = c
    THEN (CHOOSE i \in 1..6 : LowerDigits[i] = c) + 9
    ELSE -1

(* digits are accumulated left to right; `sig` counts the significant digits
   read so far, and a ninth one overflows u32 (PosOverflow) *)
RECURSIVE ParseDigits(_, _, _)
ParseDigits(s, acc, sig) ==
    IF s = <<>> THEN [ok |-> TRUE, val |-> acc]
    ELSE LET d == DigitValue(Head(s))
             sig2 == IF acc = 0 /\ d = 0 THEN 0 ELSE sig + 1 IN
         IF d < 0 \/ sig2 > U32HexDigits THEN [ok |-> FALSE, val |-> 0]
         ELSE ParseDigits(Tail(s), acc * 16 + d, sig2)

(* u32::from_str_radix(hex, 16): Err on the empty string, on a lone sign, on
   a '-' (unsigned), on a non-digit and on overflow; a leading '+' is allowed *)
from_str_radix(hex) ==
    IF hex = <<>> THEN [ok |-> FALSE, val |-> 0]
    ELSE IF Head(hex) = "+" \/ Head(hex) = "-"
    THEN IF Len(hex) = 1 \/ Head(hex) = "-" THEN [ok |-> FALSE, val |-> 0]
         ELSE ParseDigits(Tail(hex), 0, 0)
    ELSE ParseDigits(hex, 0, 0)

----------------------------------------------------------------------------
(* Per-category adapters *)

(* ImageData::from_image: rows of `width` pixels, compressed; chunks(width)
   at line 30 panics for an image of width 0 *)
from_image(image) ==
    LET rows == Chunks(image.canvas, image.width) IN
    [ok  |-> rows.ok,
     val |-> [width  |-> image.width,
              height |-> image.height,
              data   |-> compress_vec2(rows.val)]]

(* ImageData::to_image: expand to height x width and flatten *)
to_image(d) ==
    [width  |-> d.width,
     height |-> d.height,
     canvas |-> Flatten(expand_vec2(d.data, d.height, d.width))]

(* flat_map(|(tx, ty)| [tx, ty]): interleave the coordinate pairs *)
Interleave(cells) == Flatten(cells)

(* chunks(2).map(|chunk| (chunk[0], chunk[1])): on an odd length the last
   chunk holds one element and chunk[1] panics (index out of bounds) *)
Pairs(flat) ==
    [ok  |-> Len(flat) % 2 = 0,
     val |-> [i \in 1..(Len(flat) \div 2) |-> <<flat[2 * i - 1], flat[2 * i]>>]]

(* ImageSource: [kind |-> "Index", value |-> v] or [kind |-> "Image", value |-> 0] *)
ImageSourceIndex(v) == [kind |-> "Index", value |-> v]

(* TilemapData::from_tilemap: chunks(width * 2) at line 76 panics for a
   tilemap of width 0 *)
from_tilemap(tilemap) ==
    LET rows == Chunks(Interleave(tilemap.canvas), tilemap.width * 2) IN
    [ok  |-> rows.ok,
     val |-> [width  |-> tilemap.width,
              height |-> tilemap.height,
              imgsrc |-> IF tilemap.imgsrc.kind = "Index"
                         THEN tilemap.imgsrc.value ELSE 0,
              data   |-> compress_vec2(rows.val)]]

(* TilemapData::to_tilemap: [ok |-> FALSE] is the panic of chunk[1] *)
to_tilemap(d) ==
    LET cells == Pairs(Flatten(expand_vec2(d.data, d.height, d.width * 2))) IN
    [ok  |-> cells.ok,
     val |-> [width  |-> d.width,
              height |-> d.height,
              imgsrc |-> ImageSourceIndex(d.imgsrc),
              canvas |-> cells.val]]

(* waveform::Noise: index <-> variant; an unknown index panics *)
NoiseVariants == <<"Off", "ShortPeriod", "LongPeriod">>

Noise_to_index(noise) == (CHOOSE i \in 1..Len(NoiseVariants) : NoiseVariants[i] = noise) - 1

Noise_from_index(index) ==
    IF index \in 0..(Len(NoiseVariants) - 1)
    THEN [ok |-> TRUE, val |-> NoiseVariants[index + 1]]
    ELSE [ok |-> FALSE, val |-> "Off"]

(* WaveformData::from_waveform *)
from_waveform(waveform) ==
    [gain |-> waveform.gain, noise |-> Noise_to_index(waveform.noise),
     table |-> waveform.table]

(* WaveformData::to_waveform: [ok |-> FALSE] is the panic of Noise::from_index *)
to_waveform(d) ==
    LET n == Noise_from_index(d.noise) IN
    [ok  |-> n.ok,
     val |-> [gain |-> d.gain, noise |-> n.val, table |-> d.table]]

(* ChannelData::from_channel / to_channel *)
from_channel(channel) == [gain |-> channel.gain, detune |-> channel.detune]

to_channel(d) == [gain |-> d.gain, detune |-> d.detune]

(* SoundData::from_sound / to_sound *)
from_sound(sound) ==
    [notes |-> sound.notes, tones |-> sound.tones, volumes |-> sound.volumes,
     effects |-> sound.effects, speed |-> sound.speed]

to_sound(d) ==
    [notes |-> d.notes, tones |-> d.tones, volumes |-> d.volumes,
     effects |-> d.effects, speed |-> d.speed]

(* MusicData::from_music: copy each shared sequence's contents *)
from_music(music) == [seqs |-> [i \in 1..Len(music.seqs) |-> music.seqs[i].cell]]

(* MusicData::to_music: one new shared sequence per stored list *)
to_music(d) == [seqs |-> [i \in 1..Len(d.seqs) |-> [cell |-> d.seqs[i]]]]

----------------------------------------------------------------------------
(* ResourceData *)

Selected(f) ==
    [colors    |-> f.include_colors,
     images    |-> ~f.exclude_images,
     tilemaps  |-> ~f.exclude_tilemaps,
     channels  |-> f.include_channels,
     sounds    |-> ~f.exclude_sounds,
     musics    |-> ~f.exclude_musics,
     waveforms |-> f.include_waveforms]

(* the resource to_runtime builds from one snapshot record of category c *)
BuildOne(c, x) ==
    CASE c = "colors"    -> from_str_radix(x).val
      [] c = "images"    -> to_image(x)
      [] c = "tilemaps"  -> to_tilemap(x).val
      [] c = "channels"  -> to_channel(x)
      [] c = "sounds"    -> to_sound(x)
      [] c = "musics"    -> to_music(x)
      [] c = "waveforms" -> to_waveform(x).val

(* whether building it returns (TRUE) or panics (FALSE) *)
BuildOk(c, x) ==
    CASE c = "colors"    -> from_str_radix(x).ok
      [] c = "tilemaps"  -> to_tilemap(x).ok
      [] c = "waveforms" -> to_waveform(x).ok
      [] OTHER           -> TRUE

(* the record from_runtime makes of one resource of category c *)
CaptureOne(c, x) ==
    CASE c = "colors"    -> [ok |-> TRUE, val |-> format_06X(x)]
      [] c = "images"    -> from_image(x)
      [] c = "tilemaps"  -> from_tilemap(x)
      [] c = "channels"  -> [ok |-> TRUE, val |-> from_channel(x)]
      [] c = "sounds"    -> [ok |-> TRUE, val |-> from_sound(x)]
      [] c = "musics"    -> [ok |-> TRUE, val |-> from_music(x)]
      [] c = "waveforms" -> [ok |-> TRUE, val |-> from_waveform(x)]

(* from_runtime, one block (the statement of lines 244-249 or one of the
   loops of lines 250-279): under the pool's lock every resource of the pool
   is read and its record made; a panic of from_image / from_tilemap ends the
   call *)
from_runtime_block(p, c) ==
    [ok  |-> \A i \in 1..Len(p[c]) : CaptureOne(c, p[c][i]).ok,
     val |-> [i \in 1..Len(p[c]) |-> CaptureOne(c, p[c][i]).val]]

(* ResourceData::from_runtime on pools no other thread changes meanwhile:
   [ok |-> FALSE] when a block panics, and nothing is returned *)
from_runtime(p) ==
    [ok  |-> \A c \in Categories : from_runtime_block(p, c).ok,
     val |-> [k \in Categories \cup {"format_version"} |->
                 IF k = "format_version" THEN RESOURCE_FORMAT_VERSION
                 ELSE from_runtime_block(p, k).val]]

(* to_runtime, lines 294-300: the parsed list is collected before the pool is
   assigned, so an Err (unwrap panics) leaves the pool as it was *)
apply_colors(self, p, f) ==
    IF f.include_colors /\ self.colors # <<>>
    THEN IF \A i \in 1..Len(self.colors) : from_str_radix(self.colors[i]).ok
         THEN [ok |-> TRUE,
               pyxel |-> [p EXCEPT !.colors =
                   [i \in 1..Len(self.colors) |-> from_str_radix(self.colors[i]).val]]]
         ELSE [ok |-> FALSE, pyxel |-> p]
    ELSE [ok |-> TRUE, pyxel |-> p]

(* to_runtime, lines 301-307 *)
apply_images(self, p, f) ==
    IF ~f.exclude_images /\ self.images # <<>>
    THEN [p EXCEPT !.images = [i \in 1..Len(self.images) |-> to_image(self.images[i])]]
    ELSE p

(* to_runtime, lines 308-314: a panic of to_tilemap happens while the new
   list is being built, before the pool is assigned *)
apply_tilemaps(self, p, f) ==
    IF ~f.exclude_tilemaps /\ self.tilemaps # <<>>
    THEN IF \A i \in 1..Len(self.tilemaps) : to_tilemap(self.tilemaps[i]).ok
         THEN [ok |-> TRUE,
               pyxel |-> [p EXCEPT !.tilemaps =
                   [i \in 1..Len(self.tilemaps) |-> to_tilemap(self.tilemaps[i]).val]]]
         ELSE [ok |-> FALSE, pyxel |-> p]
    ELSE [ok |-> TRUE, pyxel |-> p]

(* to_runtime, lines 315-321 *)
apply_channels(self, p, f) ==
    IF f.include_channels /\ self.channels # <<>>
    THEN [p EXCEPT !.channels = [i \in 1..Len(self.channels) |-> to_channel(self.channels[i])]]
    ELSE p

(* mutant: the new sounds are appended to the pool instead of replacing it *)
apply_sounds_extend(self, p, f) ==
    IF ~f.exclude_sounds /\ self.sounds # <<>>
    THEN [p EXCEPT !.sounds = p.sounds \o [i \in 1..Len(self.sounds) |-> to_sound(self.sounds[i])]]
    ELSE p

(* to_runtime, lines 322-328 *)
apply_sounds(self, p, f) ==
    IF ~f.exclude_sounds /\ self.sounds # <<>>
    THEN [p EXCEPT !.sounds = [i \in 1..Len(self.sounds) |-> to_sound(self.sounds[i])]]
    ELSE p

(* to_runtime, lines 329-335 *)
apply_musics(self, p, f) ==
    IF ~f.exclude_musics /\ self.musics # <<>>
    THEN [p EXCEPT !.musics = [i \in 1..Len(self.musics) |-> to_music(self.musics[i])]]
    ELSE p

(* to_runtime, lines 336-342: to_waveform panics on an unknown noise index
   while the new list is being built, before the pool is assigned *)
apply_waveforms(self, p, f) ==
    IF f.include_waveforms /\ self.waveforms # <<>>
    THEN IF \A i \in 1..Len(self.waveforms) : to_waveform(self.waveforms[i]).ok
         THEN [ok |-> TRUE,
               pyxel |-> [p EXCEPT !.waveforms =
                   [i \in 1..Len(self.waveforms) |-> to_waveform(self.waveforms[i]).val]]]
         ELSE [ok |-> FALSE, pyxel |-> p]
    ELSE [ok |-> TRUE, pyxel |-> p]

(* to_runtime, one block: lines 294-300 for the colors, 301-307 for the
   images and so on; the new list is built first and assigned under the
   pool's lock *)
to_runtime_block(self, p, f, c) ==
    CASE c = "colors"    -> apply_colors(self, p, f)
      [] c = "images"    -> [ok |-> TRUE, pyxel |-> apply_images(self, p, f)]
      [] c = "tilemaps"  -> apply_tilemaps(self, p, f)
      [] c = "channels"  -> [ok |-> TRUE, pyxel |-> apply_channels(self, p, f)]
      [] c = "sounds"    -> [ok |-> TRUE, pyxel |-> apply_sounds(self, p, f)]
      [] c = "musics"    -> [ok |-> TRUE, pyxel |-> apply_musics(self, p, f)]
      [] c = "waveforms" -> apply_waveforms(self, p, f)

(* mutant: a snapshot of a newer format version is refused *)
NextBlock_checked(self, f, k) ==
    IF self.format_version > RESOURCE_FORMAT_VERSION THEN NCats + 1
    ELSE LET ks == {n \in k..NCats : Selected(f)[CatOrder[n]] /\ self[CatOrder[n]] # <<>>} IN
         IF ks = {} THEN NCats + 1 ELSE CHOOSE m \in ks : \A o \in ks : m <= o

(* the first block of to_runtime, from the k-th on, whose condition holds
   (selected and the list not empty); NCats + 1 when there is none.
   format_version is not read. *)
NextBlock(self, f, k) ==
    LET ks == {n \in k..NCats : Selected(f)[CatOrder[n]] /\ self[CatOrder[n]] # <<>>} IN
    IF ks = {} THEN NCats + 1 ELSE CHOOSE m \in ks : \A o \in ks : m <= o

(* the blocks from the k-th on, in the order of the code; a panic ends the
   call where it happens, with the pools as they are at that point *)
RECURSIVE RunBlocks(_, _, _, _)
RunBlocks(self, p, f, k) ==
    LET n == NextBlock(self, f, k) IN
    IF n > NCats THEN [ok |-> TRUE, pyxel |-> p]
    ELSE LET r == to_runtime_block(self, p, f, CatOrder[n]) IN
         IF ~r.ok THEN r ELSE RunBlocks(self, r.pyxel, f, n + 1)

(* ResourceData::to_runtime on pools no other thread changes meanwhile *)
to_runtime(self, p, f) == RunBlocks(self, p, f, 1)

(* mutant: the images test is inverted *)
ClearUnselected_imagesInverted(self, f) ==
    [format_version |-> self.format_version,
     colors    |-> IF ~f.include_colors    THEN <<>> ELSE self.colors,
     images    |-> IF ~f.exclude_images    THEN <<>> ELSE self.images,
     tilemaps  |-> IF f.exclude_tilemaps   THEN <<>> ELSE self.tilemaps,
     channels  |-> IF ~f.include_channels  THEN <<>> ELSE self.channels,
     sounds    |-> IF f.exclude_sounds     THEN <<>> ELSE self.sounds,
     musics    |-> IF f.exclude_musics     THEN <<>> ELSE self.musics,
     waveforms |-> IF ~f.include_waveforms THEN <<>> ELSE self.waveforms]

(* mutant: the channels are never cleared *)
ClearUnselected_channelsKept(self, f) ==
    [format_version |-> self.format_version,
     colors    |-> IF ~f.include_colors    THEN <<>> ELSE self.colors,
     images    |-> IF f.exclude_images     THEN <<>> ELSE self.images,
     tilemaps  |-> IF f.exclude_tilemaps   THEN <<>> ELSE self.tilemaps,
     channels  |-> self.channels,
     sounds    |-> IF f.exclude_sounds     THEN <<>> ELSE self.sounds,
     musics    |-> IF f.exclude_musics     THEN <<>> ELSE self.musics,
     waveforms |-> IF ~f.include_waveforms THEN <<>> ELSE self.waveforms]

(* to_toml, lines 355-376: the clone with the unselected lists cleared *)
ClearUnselected(self, f) ==
    [format_version |-> self.format_version,
     colors    |-> IF ~f.include_colors    THEN <<>> ELSE self.colors,
     images    |-> IF f.exclude_images     THEN <<>> ELSE self.images,
     tilemaps  |-> IF f.exclude_tilemaps   THEN <<>> ELSE self.tilemaps,
     channels  |-> IF ~f.include_channels  THEN <<>> ELSE self.channels,
     sounds    |-> IF f.exclude_sounds     THEN <<>> ELSE self.sounds,
     musics    |-> IF f.exclude_musics     THEN <<>> ELSE self.musics,
     waveforms |-> IF ~f.include_waveforms THEN <<>> ELSE self.waveforms]

(* TOML values: [type |-> "integer" | "string" | "array" | "table", val |-> v];
   the val of a table is its key/value entries in textual order, and a TOML
   text is the entries of its root table *)
TomlInteger(n) == [type |-> "integer", val |-> n]

TomlString(str) == [type |-> "string", val |-> str]

TomlArray(items) == [type |-> "array", val |-> items]

TomlTable(entries) == [type |-> "table", val |-> entries]

(* the shapes derive(Serialize, Deserialize) gives the structs: the fields in
   declaration order with their types.  "number" stands for the numeric types
   declared outside this file (Gain, Detune, Note, Tone, Volume, Effect,
   Speed, WaveformTable entries); Color is u8 (line 31). *)
ShapeU32 == [kind |-> "u32"]

ShapeU8 == [kind |-> "u8"]

ShapeU16 == [kind |-> "u16"]

ShapeNumber == [kind |-> "number"]

ShapeString == [kind |-> "string"]

ShapeVec(of) == [kind |-> "vec", of |-> of]

(* a fixed-length array [T; n] *)
ShapeArray(of, n) == [kind |-> "array", of |-> of, len |-> n]

ShapeStruct(fields) == [kind |-> "struct", fields |-> fields]

(* the length of WaveformTable, fixed by the engine *)
WaveformTableLen == 2

ImageDataShape ==
    ShapeStruct(<< <<"width", ShapeU32>>, <<"height", ShapeU32>>,
                   <<"data", ShapeVec(ShapeVec(ShapeU8))>> >>)

TilemapDataShape ==
    ShapeStruct(<< <<"width", ShapeU32>>, <<"height", ShapeU32>>,
                   <<"imgsrc", ShapeU32>>,
                   <<"data", ShapeVec(ShapeVec(ShapeU16))>> >>)

WaveformDataShape ==
    ShapeStruct(<< <<"gain", ShapeNumber>>, <<"noise", ShapeU32>>,
                   <<"table", ShapeArray(ShapeNumber, WaveformTableLen)>> >>)

ChannelDataShape ==
    ShapeStruct(<< <<"gain", ShapeNumber>>, <<"detune", ShapeNumber>> >>)

SoundDataShape ==
    ShapeStruct(<< <<"notes", ShapeVec(ShapeNumber)>>,
                   <<"tones", ShapeVec(ShapeNumber)>>,
                   <<"volumes", ShapeVec(ShapeNumber)>>,
                   <<"effects", ShapeVec(ShapeNumber)>>,
                   <<"speed", ShapeNumber>> >>)

MusicDataShape == ShapeStruct(<< <<"seqs", ShapeVec(ShapeVec(ShapeU32))>> >>)

ResourceDataShape ==
    ShapeStruct(<< <<"format_version", ShapeU32>>,
                   <<"colors", ShapeVec(ShapeString)>>,
                   <<"images", ShapeVec(ImageDataShape)>>,
                   <<"tilemaps", ShapeVec(TilemapDataShape)>>,
                   <<"channels", ShapeVec(ChannelDataShape)>>,
                   <<"sounds", ShapeVec(SoundDataShape)>>,
                   <<"musics", ShapeVec(MusicDataShape)>>,
                   <<"waveforms", ShapeVec(WaveformDataShape)>> >>)

(* the type of field k of ResourceData *)
FieldShape(k) ==
    ResourceDataShape.fields[
        CHOOSE i \in 1..Len(ResourceDataShape.fields) :
            ResourceDataShape.fields[i][1] = k][2]

(* what TOML writes as a [table] or [[array of tables]] section: a table, or
   a non-empty array of tables (an empty array is written inline, "k = []") *)
IsSection(v) ==
    \/ v.type = "table"
    \/ v.type = "array" /\ v.val # <<>> /\ v.val[1].type = "table"

(* the entries of a table as the text has them: the plain key/value lines
   first, then the sections, each group in declaration order *)
SectionsLast(entries) ==
    LET Plain(e) == ~IsSection(e[2])
        Section(e) == IsSection(e[2]) IN
    SelectSeq(entries, Plain) \o SelectSeq(entries, Section)

(* serde Serialize into TOML *)
RECURSIVE Serialize(_, _)
Serialize(shape, x) ==
    CASE shape.kind \in {"u32", "u16", "u8", "number"} -> TomlInteger(x)
      [] shape.kind = "string" -> TomlString(x)
      [] shape.kind \in {"vec", "array"} ->
            TomlArray([i \in 1..Len(x) |-> Serialize(shape.of, x[i])])
      [] shape.kind = "struct" ->
            TomlTable(SectionsLast(
                [i \in 1..Len(shape.fields) |->
                    <<shape.fields[i][1],
                      Serialize(shape.fields[i][2], x[shape.fields[i][1]])>>]))

(* toml::to_string(&resource_data) *)
toml_to_string(d) == Serialize(ResourceDataShape, d).val

DeserializeErr == [ok |-> FALSE, val |-> <<>>]

(* serde Deserialize from TOML.  A struct is read from a table, every field
   looked up by key whatever the order of the entries (a missing key, a
   repeated key or a value of another type than the field's is an Err,
   unknown keys are ignored), or from an array, whose items are the fields in
   declaration order (visit_seq of the derived Deserialize).  A fixed-length
   array, and a struct read from an array, take their first items: fewer
   items are an Err and further items are dropped unread. *)
RECURSIVE Deserialize(_, _)
Deserialize(shape, v) ==
    CASE shape.kind = "u32" ->
            IF v.type = "integer" /\ v.val >= 0
            THEN [ok |-> TRUE, val |-> v.val] ELSE DeserializeErr
      [] shape.kind = "u16" ->
            IF v.type = "integer" /\ v.val \in 0..65535
            THEN [ok |-> TRUE, val |-> v.val] ELSE DeserializeErr
      [] shape.kind = "u8" ->
            IF v.type = "integer" /\ v.val \in 0..255
            THEN [ok |-> TRUE, val |-> v.val] ELSE DeserializeErr
      [] shape.kind = "number" ->
            IF v.type = "integer"
            THEN [ok |-> TRUE, val |-> v.val] ELSE DeserializeErr
      [] shape.kind = "string" ->
            IF v.type = "string"
            THEN [ok |-> TRUE, val |-> v.val] ELSE DeserializeErr
      [] shape.kind = "vec" ->
            IF v.type # "array" THEN DeserializeErr
            ELSE LET items == [i \in 1..Len(v.val) |-> Deserialize(shape.of, v.val[i])] IN
                 IF \A i \in 1..Len(v.val) : items[i].ok
                 THEN [ok |-> TRUE, val |-> [i \in 1..Len(v.val) |-> items[i].val]]
                 ELSE DeserializeErr
      [] shape.kind = "array" ->
            IF v.type # "array" \/ Len(v.val) < shape.len THEN DeserializeErr
            ELSE LET items == [i \in 1..shape.len |-> Deserialize(shape.of, v.val[i])] IN
                 IF \A i \in 1..shape.len : items[i].ok
                 THEN [ok |-> TRUE, val |-> [i \in 1..shape.len |-> items[i].val]]
                 ELSE DeserializeErr
      [] shape.kind = "struct" /\ v.type = "array" ->
            LET fs == shape.fields IN
            IF Len(v.val) < Len(fs) THEN DeserializeErr
            ELSE LET items == [i \in 1..Len(fs) |-> Deserialize(fs[i][2], v.val[i])] IN
                 IF \A i \in 1..Len(fs) : items[i].ok
                 THEN [ok |-> TRUE,
                       val |-> [k \in {fs[i][1] : i \in 1..Len(fs)} |->
                                   items[CHOOSE i \in 1..Len(fs) : fs[i][1] = k].val]]
                 ELSE DeserializeErr
      [] shape.kind = "struct" ->
            IF v.type # "table" THEN DeserializeErr
            ELSE LET t == v.val
                     fs == shape.fields
                     Has(k) == \E i \in 1..Len(t) : t[i][1] = k
                     Get(k) == t[CHOOSE i \in 1..Len(t) : t[i][1] = k][2]
                     Field(k) == fs[CHOOSE i \in 1..Len(fs) : fs[i][1] = k][2]
                 IN
                 IF /\ \A i, j \in 1..Len(t) : t[i][1] = t[j][1] => i = j
                    /\ \A i \in 1..Len(fs) :
                          Has(fs[i][1]) /\ Deserialize(fs[i][2], Get(fs[i][1])).ok
                 THEN [ok |-> TRUE,
                       val |-> [k \in {fs[i][1] : i \in 1..Len(fs)} |->
                                   Deserialize(Field(k), Get(k)).val]]
                 ELSE DeserializeErr

(* toml::from_str::<ResourceData>(toml_text) *)
toml_from_str(t) == Deserialize(ResourceDataShape, TomlTable(t))

(* ResourceData::to_toml *)
to_toml(self, f) == toml_to_string(ClearUnselected(self, f))

(* ResourceData::from_toml *)
from_toml(t) == toml_from_str(t)

----------------------------------------------------------------------------
(* Values the sequential specifications draw from *)

Str(a, b, c, d, e, g) == <<a, b, c, d, e, g>>

AllFalse == [n \in FlagNames |-> FALSE]

(* every category selected *)
AllSelected ==
    [n \in FlagNames |-> n \in {"include_colors", "include_channels", "include_waveforms"}]

OnlyImages ==
    [exclude_images |-> FALSE, exclude_tilemaps |-> TRUE, exclude_sounds |-> TRUE,
     exclude_musics |-> TRUE, include_colors |-> FALSE, include_channels |-> FALSE,
     include_waveforms |-> FALSE]

EmptyRuntime ==
    [colors |-> <<>>, images |-> <<>>, tilemaps |-> <<>>, channels |-> <<>>,
     sounds |-> <<>>, musics |-> <<>>, waveforms |-> <<>>]

(* a runtime with every pool populated *)
Runtime0 ==
    [colors    |-> <<0, 1715004>>,
     images    |-> <<[width |-> 2, height |-> 2, canvas |-> <<1, 2, 3, 3>>]>>,
     tilemaps  |-> <<[width |-> 1, height |-> 2, imgsrc |-> ImageSourceIndex(0),
                      canvas |-> << <<0, 1>>, <<2, 3>> >>]>>,
     channels  |-> <<[gain |-> 1, detune |-> 0]>>,
     sounds    |-> <<[notes |-> <<1>>, tones |-> <<0>>, volumes |-> <<7>>,
                      effects |-> <<0>>, speed |-> 30]>>,
     musics    |-> <<[seqs |-> <<[cell |-> <<0>>], [cell |-> <<1, 0>>]>>]>>,
     waveforms |-> <<[gain |-> 1, noise |-> "Off", table |-> <<0, 1>>]>>]

EmptyData(v) ==
    [format_version |-> v, colors |-> <<>>, images |-> <<>>, tilemaps |-> <<>>,
     channels |-> <<>>, sounds |-> <<>>, musics |-> <<>>, waveforms |-> <<>>]

(* a ResourceData with every list populated *)
FullData(v) ==
    [format_version |-> v,
     colors    |-> <<Str("F","F","0","0","A","A"), Str("0","0","0","0","0","7"),
                     Str("1","A","2","B","3","C")>>,
     images    |-> <<[width |-> 2, height |-> 1, data |-> << <<5, 6>> >>],
                     [width |-> 2, height |-> 2, data |-> << <<4>> >>]>>,
     tilemaps  |-> <<[width |-> 2, height |-> 1, imgsrc |-> 1,
                      data |-> << <<1, 0, 0, 1>> >>],
                     [width |-> 1, height |-> 2, imgsrc |-> 0,
                      data |-> << <<2, 3>>, <<3, 2>> >>]>>,
     channels  |-> <<[gain |-> 2, detune |-> 5]>>,
     sounds    |-> <<[notes |-> <<3, 4>>, tones |-> <<1>>, volumes |-> <<6, 5>>,
                      effects |-> <<>>, speed |-> 20],
                     [notes |-> <<>>, tones |-> <<>>, volumes |-> <<>>,
                      effects |-> <<>>, speed |-> 1]>>,
     musics    |-> <<[seqs |-> << <<0, 1>>, <<>>, <<1>> >>]>>,
     waveforms |-> <<[gain |-> 3, noise |-> 1, table |-> <<7, 0>>],
                     [gain |-> 0, noise |-> 2, table |-> <<1, 1>>]>>]

Keep(d, cats) ==
    [k \in DOMAIN d |-> IF k \in cats \/ k = "format_version" THEN d[k] ELSE <<>>]

BadColors == <<Str("0","0","0","0","0","1"), Str("Z","Z","Z","Z","Z","Z")>>

BadWaveforms ==
    <<[gain |-> 3, noise |-> 1, table |-> <<7, 0>>],
      [gain |-> 1, noise |-> 3, table |-> <<0, 0>>]>>

(* the record of an image of width 0 and height 2 *)
ZeroWidthImage == [width |-> 0, height |-> 2, data |-> <<>>]

(* a version other than the engine's *)
OtherVersion == RESOURCE_FORMAT_VERSION + 5

Snapshots ==
    {FullData(RESOURCE_FORMAT_VERSION), FullData(OtherVersion),
     EmptyData(RESOURCE_FORMAT_VERSION),
     Keep(FullData(OtherVersion), {"colors", "images", "sounds"}),
     Keep(FullData(1), {"tilemaps", "channels", "musics", "waveforms"}),
     [FullData(RESOURCE_FORMAT_VERSION) EXCEPT !.colors = BadColors],
     [FullData(RESOURCE_FORMAT_VERSION) EXCEPT !.waveforms = BadWaveforms],
     [Keep(FullData(0), {"waveforms"}) EXCEPT !.waveforms = BadWaveforms]}

(* a caller that has made no call yet *)
NoCall(p, d) ==
    [op |-> "none", flags |-> AllFalse, ok |-> TRUE, pre |-> p, self |-> d,
     cat |-> NCats + 1, done |-> TRUE, acc |-> EmptyData(RESOURCE_FORMAT_VERSION)]

----------------------------------------------------------------------------
(* The calls.  to_runtime and from_runtime touch the shared pools one block
   at a time and hold no lock between two blocks, so a block is a step and
   another caller's blocks can come in between; what a block does under the
   pool's lock is seen by nobody else before the lock is released (SpecConc
   has the lock operations one by one).  A call record holds the position of
   a call: cat is the index in CatOrder of its next block, done says that it
   has returned or panicked, ok = FALSE that it panicked, pre the pools when
   its first block ran, acc the ResourceData a from_runtime has filled so
   far.  A panic ends the caller's program. *)

(* to_runtime, lines 294-342: the block call.cat, then on to the next block
   whose condition holds; a panic in the block ends the call *)
to_runtime_step(call, p) ==
    LET r == to_runtime_block(call.self, p, call.flags, CatOrder[call.cat])
        n == NextBlock(call.self, call.flags, call.cat + 1) IN
    [pyxel |-> r.pyxel,
     call  |-> [call EXCEPT !.ok = r.ok,
                            !.cat = IF r.ok THEN n ELSE call.cat,
                            !.done = ~r.ok \/ n > NCats]]

(* self.to_runtime(pyxel, flags...) from its entry to the end of the first
   block whose condition holds; it returns at once when there is none *)
to_runtime_enter(self, p, f) ==
    LET n == NextBlock(self, f, 1)
        call == [op |-> "to_runtime", flags |-> f, ok |-> TRUE, pre |-> p,
                 self |-> self, cat |-> n, done |-> n > NCats,
                 acc |-> EmptyData(RESOURCE_FORMAT_VERSION)] IN
    IF n > NCats THEN [pyxel |-> p, call |-> call] ELSE to_runtime_step(call, p)

(* from_runtime, lines 244-279: the block call.cat fills its list of
   resource_data; the call returns after the last block *)
from_runtime_step(call, p) ==
    LET c == CatOrder[call.cat]
        r == from_runtime_block(p, c) IN
    [call EXCEPT !.ok = r.ok,
                 !.acc = IF r.ok THEN [call.acc EXCEPT ![c] = r.val] ELSE call.acc,
                 !.cat = IF r.ok THEN call.cat + 1 ELSE call.cat,
                 !.done = ~r.ok \/ call.cat = NCats]

(* ResourceData::from_runtime(pyxel) from its entry (lines 234-243) to the
   end of the colors statement *)
from_runtime_enter(self, p) ==
    from_runtime_step([op |-> "from_runtime", flags |-> AllFalse, ok |-> TRUE,
                       pre |-> p, self |-> self, cat |-> 1, done |-> FALSE,
                       acc |-> EmptyData(RESOURCE_FORMAT_VERSION)], p)

(* what from_runtime returned, if it has: the caller's snapshot *)
Returned(call, old) == IF call.done /\ call.ok THEN call.acc ELSE old

(* the pools a returned from_runtime began on *)
CapturedFrom(call, old) == IF call.done /\ call.ok THEN <<call.pre>> ELSE old

(* snap.to_runtime(pyxel, flags...): entry and first block *)
ToRuntime(f) ==
    /\ last.done /\ last.ok
    /\ LET r == to_runtime_enter(snap, pyxel, f) IN
         /\ pyxel' = r.pyxel
         /\ last' = r.call
    /\ nops' = nops + 1
    /\ UNCHANGED <<snap, text, capturedFrom, rendered, peer>>
    /\ UNCHANGED concVars

(* the next block of the to_runtime in progress *)
ToRuntimeBlock ==
    /\ last.op = "to_runtime" /\ ~last.done
    /\ LET r == to_runtime_step(last, pyxel) IN
         /\ pyxel' = r.pyxel
         /\ last' = r.call
    /\ UNCHANGED <<snap, text, capturedFrom, rendered, peer, nops>>
    /\ UNCHANGED concVars

(* snap = ResourceData::from_runtime(pyxel): entry and the colors *)
FromRuntime ==
    /\ last.done /\ last.ok
    /\ LET call == from_runtime_enter(snap, pyxel) IN
         /\ last' = call
         /\ snap' = Returned(call, snap)
         /\ capturedFrom' = CapturedFrom(call, capturedFrom)
    /\ nops' = nops + 1
    /\ UNCHANGED <<pyxel, text, rendered, peer>>
    /\ UNCHANGED concVars

(* the next block of the from_runtime in progress; after the last one the
   snapshot is returned *)
FromRuntimeBlock ==
    /\ last.op = "from_runtime" /\ ~last.done
    /\ LET call == from_runtime_step(last, pyxel) IN
         /\ last' = call
         /\ snap' = Returned(call, snap)
         /\ capturedFrom' = CapturedFrom(call, capturedFrom)
    /\ UNCHANGED <<pyxel, text, rendered, peer, nops>>
    /\ UNCHANGED concVars

(* text = snap.to_toml(flags...): no shared state is read *)
ToToml(f) ==
    /\ last.done /\ last.ok
    /\ text' = to_toml(snap, f)
    /\ rendered' = <<[flags |-> f, self |-> snap]>>
    /\ last' = [NoCall(pyxel, snap) EXCEPT !.op = "to_toml", !.flags = f]
    /\ nops' = nops + 1
    /\ UNCHANGED <<pyxel, snap, capturedFrom, peer>>
    /\ UNCHANGED concVars

(* snap = ResourceData::from_toml(text): unwrap panics on an Err; no shared
   state is read *)
FromToml ==
    /\ last.done /\ last.ok
    /\ LET r == from_toml(text) IN
         /\ snap' = IF r.ok THEN r.val ELSE snap
         /\ last' = [NoCall(pyxel, snap) EXCEPT !.op = "from_toml", !.ok = r.ok]
    /\ capturedFrom' = <<>>
    /\ nops' = nops + 1
    /\ UNCHANGED <<pyxel, text, rendered, peer>>
    /\ UNCHANGED concVars

(* a second caller on the same runtime, with its own snapshot peer.self *)
PeerToRuntime(f) ==
    /\ peer.op = "none"
    /\ LET r == to_runtime_enter(peer.self, pyxel, f) IN
         /\ pyxel' = r.pyxel
         /\ peer' = r.call
    /\ UNCHANGED <<snap, text, last, capturedFrom, nops, rendered>>
    /\ UNCHANGED concVars

PeerToRuntimeBlock ==
    /\ peer.op = "to_runtime" /\ ~peer.done
    /\ LET r == to_runtime_step(peer, pyxel) IN
         /\ pyxel' = r.pyxel
         /\ peer' = r.call
    /\ UNCHANGED <<snap, text, last, capturedFrom, nops, rendered>>
    /\ UNCHANGED concVars

PeerFromRuntime ==
    /\ peer.op = "none"
    /\ peer' = from_runtime_enter(peer.self, pyxel)
    /\ UNCHANGED <<pyxel, snap, text, last, capturedFrom, nops, rendered>>
    /\ UNCHANGED concVars

PeerFromRuntimeBlock ==
    /\ peer.op = "from_runtime" /\ ~peer.done
    /\ peer' = from_runtime_step(peer, pyxel)
    /\ UNCHANGED <<pyxel, snap, text, last, capturedFrom, nops, rendered>>
    /\ UNCHANGED concVars

ConcIdle ==
    /\ pool = <<>>
    /\ held = <<>>
    /\ thr = <<>>
    /\ acquired = <<>>

InitSeq(p, d, t) ==
    /\ pyxel = p
    /\ snap = d
    /\ text = t
    /\ last = NoCall(p, d)
    /\ peer = NoCall(p, d)
    /\ capturedFrom = <<>>
    /\ nops = 0
    /\ rendered = <<>>
    /\ ConcIdle

(* Spec: one call of one caller, from every snapshot and two runtimes *)
Init == \E d \in Snapshots, p \in {Runtime0, EmptyRuntime} : InitSeq(p, d, <<>>)

Next ==
    \/ last.op = "none" /\ \E f \in Flags : ToRuntime(f)
    \/ last.op = "none" /\ FromRuntime
    \/ ToRuntimeBlock
    \/ FromRuntimeBlock

Spec == Init /\ [][Next]_vars

(* SpecToml: to_toml, from_toml of that text, then to_runtime of the result *)
TomlSnapshots ==
    {FullData(RESOURCE_FORMAT_VERSION), FullData(OtherVersion),
     Keep(FullData(OtherVersion), {"colors", "images", "sounds"}),
     from_runtime(Runtime0).val}

InitToml == \E d \in TomlSnapshots : InitSeq(Runtime0, d, <<>>)

NextToml ==
    \/ last.op = "none" /\ \E f \in Flags : ToToml(f)
    \/ last.op = "to_toml" /\ FromToml
    \/ last.op = "from_toml" /\ \E f \in Flags : ToRuntime(f)
    \/ ToRuntimeBlock

SpecToml == InitToml /\ [][NextToml]_vars

(* SpecInterleaved: two callers on one runtime, one call each, one of them a
   to_runtime and the other a from_runtime, or both a to_runtime; their
   blocks interleave in every order *)
InterleavedFlags == {AllFalse, AllSelected}

InitInterleaved ==
    \E d \in {FullData(OtherVersion), Keep(FullData(1), {"colors", "sounds"})} :
        /\ pyxel = Runtime0
        /\ snap = FullData(RESOURCE_FORMAT_VERSION)
        /\ text = <<>>
        /\ last = NoCall(Runtime0, FullData(RESOURCE_FORMAT_VERSION))
        /\ peer = NoCall(Runtime0, d)
        /\ capturedFrom = <<>>
        /\ nops = 0
        /\ rendered = <<>>
        /\ ConcIdle

NextInterleaved ==
    \/ last.op = "none" /\ \E f \in InterleavedFlags : ToRuntime(f)
    \/ last.op = "none" /\ FromRuntime
    \/ ToRuntimeBlock
    \/ FromRuntimeBlock
    \/ \E f \in InterleavedFlags : PeerToRuntime(f)
    \/ PeerFromRuntime
    \/ PeerToRuntimeBlock
    \/ PeerFromRuntimeBlock

SpecInterleaved == InitInterleaved /\ [][NextInterleaved]_vars

(* SpecVersions: sequences of from_toml / to_runtime / from_runtime over
   snapshots and texts that carry several format versions *)
VersionFlags ==
    {AllFalse, OnlyImages, [n \in FlagNames |-> n \in {"include_colors",
                               "include_channels", "include_waveforms"}]}

VersionSnapshots ==
    {FullData(RESOURCE_FORMAT_VERSION), FullData(OtherVersion), FullData(0),
     Keep(FullData(OtherVersion), {"colors", "images", "sounds"}),
     Keep(FullData(1), {"tilemaps", "channels", "musics", "waveforms"})}

(* texts from_toml refuses: no entry at all; the colors are integers; the
   format version is negative; the last two lists are missing; an image holds
   a pixel above 255; an image holds a negative pixel; a waveform table is
   shorter than WaveformTableLen; a channel is written as an array of one
   item *)
BadTexts ==
    <<<<>>,
      [toml_to_string(EmptyData(OtherVersion)) EXCEPT
          ![2] = <<"colors", TomlArray(<<TomlInteger(5)>>)>>],
      [toml_to_string(EmptyData(OtherVersion)) EXCEPT
          ![1] = <<"format_version", TomlInteger(0 - 1)>>],
      SubSeq(toml_to_string(FullData(OtherVersion)), 1, 6),
      toml_to_string([EmptyData(OtherVersion) EXCEPT
          !.images = <<[width |-> 2, height |-> 1, data |-> << <<5, 256>> >>]>>]),
      toml_to_string([EmptyData(OtherVersion) EXCEPT
          !.images = <<[width |-> 2, height |-> 1, data |-> << <<0 - 1, 6>> >>]>>]),
      toml_to_string([EmptyData(OtherVersion) EXCEPT
          !.waveforms = <<[gain |-> 3, noise |-> 1, table |-> <<7>>]>>]),
      [toml_to_string(EmptyData(OtherVersion)) EXCEPT
          ![5] = <<"channels", TomlArray(<<TomlArray(<<TomlInteger(2)>>)>>)>>]>>

(* a text whose waveform table is longer than WaveformTableLen: from_toml
   keeps its first WaveformTableLen entries *)
LongTableText ==
    toml_to_string([FullData(OtherVersion) EXCEPT
        !.waveforms = <<[gain |-> 3, noise |-> 1, table |-> <<7, 0, 5>>]>>])

(* a text whose structs are written as arrays of their fields in declaration
   order: images = [[2, 1, [[5, 6]]]], channels = [[2, 5]] *)
ArrayStructText ==
    [toml_to_string(EmptyData(OtherVersion)) EXCEPT
        ![3] = <<"images",
                 TomlArray(<<TomlArray(<<TomlInteger(2), TomlInteger(1),
                     TomlArray(<<TomlArray(<<TomlInteger(5), TomlInteger(6)>>)>>)>>)>>)>>,
        ![5] = <<"channels", TomlArray(<<TomlArray(<<TomlInteger(2), TomlInteger(5)>>)>>)>>]

InitVersions ==
    \E d \in VersionSnapshots :
        \/ \E t \in VersionSnapshots : InitSeq(Runtime0, d, toml_to_string(t))
        \/ \E k \in 1..Len(BadTexts) : InitSeq(Runtime0, d, BadTexts[k])
        \/ \E t \in {LongTableText, ArrayStructText} : InitSeq(Runtime0, d, t)

NextVersions ==
    \/ nops < MaxCalls /\ \E f \in VersionFlags : ToRuntime(f)
    \/ nops < MaxCalls /\ FromRuntime
    \/ nops < MaxCalls /\ FromToml
    \/ ToRuntimeBlock
    \/ FromRuntimeBlock

SpecVersions == InitVersions /\ [][NextVersions]_vars

(* SpecColors: from_runtime / to_runtime over bounded palettes and over
   bounded lists of color strings, well-formed and malformed *)
ColorSamples ==
    {0, 9, 15, 160, 2816, 49152, 851968, 1048576, 1715004, 11259375, 14680064,
     16777215}

ColorStrings ==
    {Str("1","A","2","B","3","C"), Str("Z","Z","Z","Z","Z","Z"),
     Str("0","0","f","f","0","a"), Str("+","1","A","2","B","3"), <<>>}

ColorFlags == {AllFalse, [AllFalse EXCEPT !.include_colors = TRUE]}

InitColors ==
    \/ \E n \in 0..MaxPalette : \E c \in [1..n -> ColorSamples] :
          InitSeq([EmptyRuntime EXCEPT !.colors = c, !.images = Runtime0.images],
                  EmptyData(RESOURCE_FORMAT_VERSION), <<>>)
    \/ \E n \in 0..MaxPalette : \E l \in [1..n -> ColorStrings] :
          InitSeq([EmptyRuntime EXCEPT !.colors = <<16777215>>],
                  [EmptyData(RESOURCE_FORMAT_VERSION) EXCEPT
                      !.colors = l, !.images = FullData(0).images], <<>>)

NextColors ==
    \/ nops < MaxCalls /\ \E f \in ColorFlags : ToRuntime(f)
    \/ nops < MaxCalls /\ FromRuntime
    \/ ToRuntimeBlock
    \/ FromRuntimeBlock

SpecColors == InitColors /\ [][NextColors]_vars

(* SpecTilemaps: from_runtime, then to_runtime of the captured data, over
   every tilemap of the bounded sizes, the empty ones (width or height 0)
   included *)
TilePairs == {<<0, 1>>, <<1, 0>>, <<2, 2>>}

ImageSources ==
    {ImageSourceIndex(0), ImageSourceIndex(2), [kind |-> "Image", value |-> 0]}

Tilemap(w, h, src, c) == [width |-> w, height |-> h, imgsrc |-> src, canvas |-> c]

InitTilemaps ==
    \E w \in 0..MaxW, h \in 0..MaxH, src \in ImageSources :
        \E c \in [1..(w * h) -> TilePairs] :
            InitSeq([EmptyRuntime EXCEPT !.images = Runtime0.images,
                                         !.tilemaps = <<Tilemap(w, h, src, c)>>],
                    EmptyData(RESOURCE_FORMAT_VERSION), <<>>)

NextTilemaps ==
    \/ last.op = "none" /\ FromRuntime
    \/ FromRuntimeBlock
    \/ last.op = "from_runtime" /\ ToRuntime(AllFalse)
    \/ ToRuntimeBlock

SpecTilemaps == InitTilemaps /\ [][NextTilemaps]_vars

----------------------------------------------------------------------------
(* Properties of the sequential calls *)

(* the caller's last call was op and has ended (returned or panicked) *)
Ended(op) == last.op = op /\ last.done

(* pool p holds exactly the resources built from list l, in list order *)
BuiltFrom(c, p, l) ==
    /\ Len(p) = Len(l)
    /\ \A i \in 1..Len(l) : p[i] = BuildOne(c, l[i])

Populated(d) == \A c \in Categories : d[c] # <<>>

(* C1: after to_runtime returns, each category's pool is rebuilt from the
   snapshot's list (same order, same length) when the category is selected
   and the list is non-empty, and is the pool before the call otherwise; with
   all seven flags false images/tilemaps/sounds/musics are the replaced ones
   and colors/channels/waveforms are untouched. *)
C1_ApplyFrameEffect ==
    (Ended("to_runtime") /\ last.ok) =>
        /\ \A c \in Categories :
              IF Selected(last.flags)[c] /\ last.self[c] # <<>>
              THEN BuiltFrom(c, pyxel[c], last.self[c])
              ELSE pyxel[c] = last.pre[c]
        /\ last.flags = AllFalse =>
              /\ \A c \in {"images", "tilemaps", "sounds", "musics"} :
                    last.self[c] # <<>> => BuiltFrom(c, pyxel[c], last.self[c])
              /\ \A c \in {"colors", "channels", "waveforms"} :
                    pyxel[c] = last.pre[c]

C1_Witness ==
    /\ Ended("to_runtime") /\ last.ok
    /\ last.flags = AllFalse
    /\ last.pre = Runtime0
    /\ last.self = FullData(RESOURCE_FORMAT_VERSION)
    /\ Len(pyxel.images) = 2 /\ pyxel.images # last.pre.images
    /\ pyxel.sounds # last.pre.sounds
    /\ pyxel.colors = Runtime0.colors

(* C2: a to_runtime that fails (malformed color, unknown noise index) has
   modified no pool: every pool is as it was before the call. *)
C2_AllOrNothing ==
    (Ended("to_runtime") /\ ~last.ok) => pyxel = last.pre

(* C3: to_toml with flags f on a fully populated snapshot, from_toml of that
   text and to_runtime with the same f replace exactly the selected pools by
   the snapshot's resources and leave the others as before the apply; the
   categories to_toml keeps are the ones to_runtime may touch. *)
C3_SelectiveSymmetry ==
    /\ (Ended("to_toml") /\ Populated(last.self)) =>
          \A c \in Categories :
              (\E i \in 1..Len(text) : text[i][1] = c /\ text[i][2].val # <<>>)
                  <=> Selected(last.flags)[c]
    /\ (/\ Ended("to_runtime")
        /\ rendered # <<>>
        /\ rendered[1].flags = last.flags
        /\ Populated(rendered[1].self)) =>
          /\ last.ok
          /\ \A c \in Categories :
                IF Selected(last.flags)[c]
                THEN BuiltFrom(c, pyxel[c], rendered[1].self[c])
                ELSE pyxel[c] = last.pre[c]

C3_Witness ==
    /\ Ended("to_runtime")
    /\ last.flags = OnlyImages
    /\ rendered # <<>>
    /\ rendered[1].flags = OnlyImages
    /\ rendered[1].self = FullData(OtherVersion)
    /\ pyxel.images = [i \in 1..Len(FullData(OtherVersion).images) |-> to_image(FullData(OtherVersion).images[i])]
    /\ pyxel.images # Runtime0.images
    /\ \A c \in Categories \ {"images"} : pyxel[c] = Runtime0[c]

(* the snapshot with every selected list kept and every other list empty *)
Filtered(d, f) ==
    [k \in DOMAIN d |->
        IF k = "format_version" \/ Selected(f)[k] THEN d[k] ELSE <<>>]

(* C4: to_toml serializes a copy in which every selected list is the
   snapshot's and every unselected list is empty, format_version kept; the
   snapshot it was called on and the runtime pools are unchanged. *)
C4_RenderFiltersCopy ==
    Ended("to_toml") =>
        /\ Len(text) = Len(ResourceDataShape.fields)
        /\ \A k \in Categories \cup {"format_version"} :
              \E i \in 1..Len(text) :
                  /\ text[i][1] = k
                  /\ text[i][2] = Serialize(FieldShape(k), Filtered(last.self, last.flags)[k])
        /\ toml_from_str(text).ok
        /\ toml_from_str(text).val = Filtered(last.self, last.flags)
        /\ snap = last.self
        /\ pyxel = last.pre

C4_Witness ==
    /\ Ended("to_toml")
    /\ last.flags = [OnlyImages EXCEPT !.include_channels = TRUE]
    /\ snap = FullData(OtherVersion)
    /\ text[1] = <<"format_version", TomlInteger(OtherVersion)>>
    /\ text[3] = <<"tilemaps", TomlArray(<<>>)>>
    /\ text[4] = <<"sounds", TomlArray(<<>>)>>
    /\ text[7][1] = "images" /\ Len(text[7][2].val) = Len(snap.images)
    /\ text[8] = <<"channels", Serialize(FieldShape("channels"), snap.channels)>>

(* C8: from_runtime always stamps RESOURCE_FORMAT_VERSION, whatever versions
   the snapshots parsed and applied before carried; to_runtime does not read
   format_version: its outcome is the same for every value of that field. *)
C8_VersionStamp ==
    /\ (Ended("from_runtime") /\ last.ok) =>
          snap.format_version = RESOURCE_FORMAT_VERSION
    /\ Ended("to_runtime") =>
          \A v \in {0, RESOURCE_FORMAT_VERSION, OtherVersion} :
              LET r == to_runtime([last.self EXCEPT !.format_version = v],
                                  last.pre, last.flags) IN
              r.ok = last.ok /\ r.pyxel = pyxel

C8_Witness ==
    /\ Ended("from_runtime")
    /\ nops = 3
    /\ last.self.format_version = OtherVersion
    /\ pyxel # Runtime0
    /\ snap.format_version = RESOURCE_FORMAT_VERSION

(* the value of a six-digit uppercase hexadecimal string, digit by digit *)
Pow16(k) == CASE k = 0 -> 1 [] k = 1 -> 16 [] k = 2 -> 256 [] k = 3 -> 4096
              [] k = 4 -> 65536 [] k = 5 -> 1048576

UpperIndex(ch) == CHOOSE d \in 0..15 : HexDigits[d + 1] = ch

SixDigitValue(str) ==
    UpperIndex(str[1]) * Pow16(5) + UpperIndex(str[2]) * Pow16(4)
    + UpperIndex(str[3]) * Pow16(3) + UpperIndex(str[4]) * Pow16(2)
    + UpperIndex(str[5]) * Pow16(1) + UpperIndex(str[6])

(* not valid hexadecimal: empty, or holding a character that is no
   hexadecimal digit *)
NotHexadecimal(str) ==
    \/ str = <<>>
    \/ \E k \in 1..Len(str) :
          /\ ~(\E d \in 1..16 : HexDigits[d] = str[k])
          /\ ~(\E d \in 1..6 : LowerDigits[d] = str[k])

(* one '+' followed by at least one character *)
PlusPrefixed(str) == Len(str) > 1 /\ str[1] = "+"

(* six characters: uppercase hexadecimal digits, the first possibly a '+' *)
SixUpperOrPlus(str) ==
    /\ Len(str) = 6
    /\ \A k \in 1..6 :
          \/ \E d \in 1..16 : HexDigits[d] = str[k]
          \/ k = 1 /\ str[k] = "+"

(* from_runtime writes the palette as six uppercase hexadecimal digits each,
   in palette order, 0x1A2B3C as "1A2B3C" *)
SixUppercaseDigits ==
    Ended("from_runtime") =>
        /\ Len(snap.colors) = Len(pyxel.colors)
        /\ \A i \in 1..Len(pyxel.colors) :
              /\ Len(snap.colors[i]) = 6
              /\ \A k \in 1..6 : \E d \in 1..16 : HexDigits[d] = snap.colors[i][k]
              /\ SixDigitValue(snap.colors[i]) = pyxel.colors[i]
              /\ pyxel.colors[i] = 1715004 =>
                    snap.colors[i] = Str("1","A","2","B","3","C")

(* to_runtime with include_colors parses the captured strings back to the
   captured palette *)
ParsedBack ==
    (/\ Ended("to_runtime") /\ last.flags.include_colors
     /\ capturedFrom # <<>> /\ snap.colors # <<>>) =>
        /\ last.ok
        /\ pyxel.colors = capturedFrom[1].colors

(* C7 (as stated): from_runtime writes every 24-bit palette value as exactly
   six uppercase hexadecimal digits (0x1A2B3C as "1A2B3C"), in palette order;
   to_runtime with include_colors parses the captured strings back to the
   same values; every string that is not valid hexadecimal makes to_runtime
   fail, the palette kept.  (Violated: "+1A2B3" holds the character '+' and
   is parsed as 0x01A2B3.) *)
C7_ColorEncoding ==
    /\ SixUppercaseDigits
    /\ ParsedBack
    /\ (/\ Ended("to_runtime") /\ last.flags.include_colors
        /\ \E i \in 1..Len(last.self.colors) : NotHexadecimal(last.self.colors[i])) =>
          /\ ~last.ok
          /\ pyxel.colors = last.pre.colors

(* C7 (amended): from_runtime writes every 24-bit palette value as exactly six
   uppercase hexadecimal digits, in palette order; to_runtime with
   include_colors parses the captured strings back to the same values; a
   string that is not valid hexadecimal makes to_runtime fail, the palette
   kept, unless its only other character is one leading '+' before at least
   one hexadecimal digit: that string is accepted and the '+' ignored
   ("+1A2B3" is stored as 0x01A2B3). *)
C7_ColorEncodingPlus ==
    /\ SixUppercaseDigits
    /\ ParsedBack
    /\ (/\ Ended("to_runtime") /\ last.flags.include_colors
        /\ \E i \in 1..Len(last.self.colors) :
              LET str == last.self.colors[i] IN
              /\ NotHexadecimal(str)
              /\ ~(PlusPrefixed(str) /\ ~NotHexadecimal(Tail(str)))) =>
          /\ ~last.ok
          /\ pyxel.colors = last.pre.colors
    /\ (/\ Ended("to_runtime") /\ last.flags.include_colors
        /\ last.self.colors # <<>>
        /\ \A i \in 1..Len(last.self.colors) : SixUpperOrPlus(last.self.colors[i])) =>
          /\ last.ok
          /\ Len(pyxel.colors) = Len(last.self.colors)
          /\ \A i \in 1..Len(last.self.colors) :
                LET str == last.self.colors[i] IN
                pyxel.colors[i] =
                    SixDigitValue(IF str[1] = "+" THEN <<"0">> \o Tail(str) ELSE str)

(* "+1A2B3" was applied as 0x01A2B3 next to "1A2B3C", the palette captured
   as "01A2B3", "1A2B3C" and applied again *)
C7_Witness ==
    /\ Ended("to_runtime") /\ last.ok /\ last.flags.include_colors
    /\ capturedFrom # <<>>
    /\ capturedFrom[1].colors = <<107187, 1715004>>
    /\ snap.colors = <<Str("0","1","A","2","B","3"), Str("1","A","2","B","3","C")>>
    /\ pyxel.colors = <<107187, 1715004>>

(* C6: for every tilemap t, from_tilemap(t) does not fail and
   to_tilemap(from_tilemap(t)) has t's width and height and, cell by cell,
   t's (tile-x, tile-y) pairs; its image source is Index(v) when t's was
   Index(v) and Index(0) when t's was an embedded image.  (Violated: for a
   tilemap of width 0 from_tilemap panics in chunks(0), line 76.) *)
C6_TilemapRoundTrip ==
    /\ Ended("from_runtime") =>
          /\ last.ok
          /\ Len(snap.tilemaps) = Len(pyxel.tilemaps)
    /\ (Ended("to_runtime") /\ capturedFrom = <<last.pre>>) =>
          /\ last.ok
          /\ Len(pyxel.tilemaps) = Len(last.pre.tilemaps)
          /\ \A i \in 1..Len(last.pre.tilemaps) :
                LET t == last.pre.tilemaps[i]
                    u == pyxel.tilemaps[i] IN
                /\ u.width = t.width
                /\ u.height = t.height
                /\ Len(u.canvas) = t.width * t.height
                /\ \A k \in 1..Len(t.canvas) :
                      u.canvas[k][1] = t.canvas[k][1] /\ u.canvas[k][2] = t.canvas[k][2]
                /\ u.imgsrc = IF t.imgsrc.kind = "Index"
                              THEN [kind |-> "Index", value |-> t.imgsrc.value]
                              ELSE [kind |-> "Index", value |-> 0]

----------------------------------------------------------------------------
(* Concurrent runs: every lock operation of from_runtime and to_runtime is a
   step.  A pool holds shared element ids; <<owner, category, index>> names
   the index-th element that `owner` created for a category ("init": the
   elements the runtime starts with).  Locks are parking_lot mutexes: a
   thread waits while another holds the lock, and unwinding releases them. *)

CaptureThreads == {"cap"}
ApplyThreads == {"app1", "app2"}
Threads == CaptureThreads \cup ApplyThreads

PoolLock(c) == <<"pool", c>>
ElemLock(e) == <<"elem", e>>
SeqLock(e, j) == <<"seq", e, j>>

InitPool == [c \in Categories |-> [i \in 1..Len(Runtime0[c]) |-> <<"init", c, i>>]]

Range(q) == {q[k] : k \in 1..Len(q)}

Free(l) == \A t \in Threads : l \notin Range(held[t])

Push(t, l) == [held EXCEPT ![t] = Append(held[t], l)]

Pop(t) == [held EXCEPT ![t] = SubSeq(held[t], 1, Len(held[t]) - 1)]

(* FullData with one tilemap and one sound *)
ConcData(v) ==
    [FullData(v) EXCEPT !.tilemaps = SubSeq(@, 1, 1), !.sounds = SubSeq(@, 1, 1)]

(* what the two to_runtime calls are given: [self, flags] each; the last
   scenario puts an image of width 0 into the pool, on which from_runtime
   panics *)
ConcScenarios ==
    <<<<[self |-> Keep(ConcData(RESOURCE_FORMAT_VERSION),
                      {"colors", "images", "musics", "waveforms"}),
        flags |-> AllSelected],
       [self |-> ConcData(OtherVersion), flags |-> OnlyImages]>>,
     <<[self |-> [Keep(ConcData(RESOURCE_FORMAT_VERSION), {"images", "sounds"})
                     EXCEPT !.waveforms = BadWaveforms],
        flags |-> [AllFalse EXCEPT !.include_waveforms = TRUE]],
       [self |-> Keep(ConcData(1), {"tilemaps", "channels", "musics", "waveforms"}),
        flags |-> AllFalse]>>,
     <<[self |-> [ConcData(RESOURCE_FORMAT_VERSION) EXCEPT !.colors = BadColors],
        flags |-> AllSelected],
       [self |-> Keep(ConcData(OtherVersion), {"colors", "images", "sounds"}),
        flags |-> [AllFalse EXCEPT !.include_colors = TRUE]]>>,
     <<[self |-> [Keep(ConcData(RESOURCE_FORMAT_VERSION), {"images"})
                     EXCEPT !.images = <<ZeroWidthImage>>],
        flags |-> AllFalse],
       [self |-> Keep(ConcData(OtherVersion), {"sounds"}), flags |-> AllFalse]>> >>

(* which of the two to_runtime calls of a scenario a thread makes *)
ArgOf(t) == IF t = "app1" THEN 1 ELSE 2

(* for one snapshot record x of category c: whether to_runtime builds a
   resource from it (ok) or panics, the resource (val), and what from_runtime
   makes of that resource when it reads it (rec: [ok, val]) *)
ElemOf(c, x) ==
    [ok |-> BuildOk(c, x), val |-> BuildOne(c, x), rec |-> CaptureOne(c, BuildOne(c, x))]

(* the elements the to_runtime calls of every scenario build, by scenario,
   call, category and index *)
BuiltElems ==
    [n \in 1..Len(ConcScenarios) |->
        [k \in 1..2 |->
            [c \in Categories |->
                [i \in 1..Len(ConcScenarios[n][k].self[c]) |->
                    ElemOf(c, ConcScenarios[n][k].self[c][i])]]]]

(* the elements the runtime starts with *)
InitElems ==
    [c \in Categories |->
        [i \in 1..Len(Runtime0[c]) |->
            [ok |-> TRUE, val |-> Runtime0[c][i], rec |-> CaptureOne(c, Runtime0[c][i])]]]

(* the shared element behind an id: one the runtime started with, or one a
   to_runtime call built from its snapshot *)
Elem(e) ==
    IF e[1] = "init" THEN InitElems[e[2]][e[3]]
    ELSE BuiltElems[thr[e[1]].scenario][ArgOf(e[1])][e[2]][e[3]]

(* number of shared sequences of music element e (music.seqs.len()) *)
SeqCount(e) == Len(Elem(e).val.seqs)

(* the condition of each block of to_runtime: selected and non-empty *)
Wanted(t, c) == Selected(thr[t].flags)[c] /\ thr[t].self[c] # <<>>

(* the list to_runtime builds for category c *)
NewList(self, t, c) == [i \in 1..Len(self[c]) |-> <<t, c, i>>]

(* position at the first block, from the k-th on, whose condition holds *)
Enter(self, f, k) ==
    LET n == NextBlock(self, f, k) IN
    IF n > NCats THEN [cat |-> n, pc |-> "done"]
    ELSE [cat |-> n, pc |-> IF CatOrder[n] = "colors" THEN "collect" ELSE "new"]

Cat(t) == CatOrder[thr[t].cat]

Goto(t, pos) == [thr EXCEPT ![t].pc = pos]

(* ---- from_runtime, lines 244-279 ---- *)

(* pyxel.<category>.lock(): the guard lives for the whole statement / loop *)
CapLockPool(t) ==
    /\ thr[t].role = "capture" /\ thr[t].pc = "pool"
    /\ Free(PoolLock(Cat(t)))
    /\ held' = Push(t, PoolLock(Cat(t)))
    /\ thr' = [thr EXCEPT
          ![t].seen = Append(@, [cat |-> Cat(t), list |-> pool[Cat(t)]]),
          ![t].out.colors =
              IF Cat(t) = "colors"
              THEN [i \in 1..Len(pool.colors) |-> Elem(pool.colors[i]).rec.val]
              ELSE @,
          ![t].i = 1,
          ![t].pc = IF Cat(t) = "colors" \/ pool[Cat(t)] = <<>>
                    THEN "pool_done" ELSE "elem"]
    /\ UNCHANGED <<pool, acquired>>
    /\ UNCHANGED seqVars

(* from_image / from_tilemap / ... : element.lock() under the pool lock *)
CapLockElem(t) ==
    /\ thr[t].role = "capture" /\ thr[t].pc = "elem"
    /\ LET e == pool[Cat(t)][thr[t].i] IN
         /\ Free(ElemLock(e))
         /\ held' = Push(t, ElemLock(e))
         /\ thr' = [thr EXCEPT
               ![t].j = 1,
               ![t].pc = IF Cat(t) = "musics" /\ SeqCount(e) > 0
                         THEN "seq" ELSE "elem_done"]
    /\ UNCHANGED <<pool, acquired>>
    /\ UNCHANGED seqVars

(* from_music, line 198: seq.lock() under the music lock *)
CapLockSeq(t) ==
    /\ thr[t].role = "capture" /\ thr[t].pc = "seq"
    /\ LET e == pool[Cat(t)][thr[t].i] IN
         /\ Free(SeqLock(e, thr[t].j))
         /\ held' = Push(t, SeqLock(e, thr[t].j))
    /\ thr' = Goto(t, "seq_done")
    /\ UNCHANGED <<pool, acquired>>
    /\ UNCHANGED seqVars

(* line 198: the sequence is cloned and its guard dropped *)
CapUnlockSeq(t) ==
    /\ thr[t].role = "capture" /\ thr[t].pc = "seq_done"
    /\ held' = Pop(t)
    /\ thr' = IF thr[t].j < SeqCount(pool[Cat(t)][thr[t].i])
              THEN [thr EXCEPT ![t].j = @ + 1, ![t].pc = "seq"]
              ELSE Goto(t, "elem_done")
    /\ UNCHANGED <<pool, acquired>>
    /\ UNCHANGED seqVars

(* the adapter reads the element under its guard and returns: the element
   guard is dropped, the record pushed.  When chunks(0) panics in from_image /
   from_tilemap, unwinding the adapter's frame drops the element guard; the
   pool guard, a temporary of the loop in from_runtime, is still held. *)
CapUnlockElem(t) ==
    /\ thr[t].role = "capture" /\ thr[t].pc = "elem_done"
    /\ LET r == Elem(pool[Cat(t)][thr[t].i]).rec IN
         IF ~r.ok
         THEN /\ held' = Pop(t)
              /\ thr' = Goto(t, "unwinding")
         ELSE /\ held' = Pop(t)
              /\ thr' = [thr EXCEPT
                    ![t].out[Cat(t)] = Append(@, r.val),
                    ![t].i = IF thr[t].i < Len(pool[Cat(t)]) THEN @ + 1 ELSE @,
                    ![t].pc = IF thr[t].i < Len(pool[Cat(t)])
                              THEN "elem" ELSE "pool_done"]
    /\ UNCHANGED <<pool, acquired>>
    /\ UNCHANGED seqVars

(* the panic unwinds from_runtime's frame: the pool guard is dropped and the
   call is over, nothing returned *)
CapUnwindPool(t) ==
    /\ thr[t].role = "capture" /\ thr[t].pc = "unwinding"
    /\ held' = Pop(t)
    /\ thr' = Goto(t, "panicked")
    /\ UNCHANGED <<pool, acquired>>
    /\ UNCHANGED seqVars

(* mutant: the pool guard is kept when the loop ends *)
CapUnlockPool_kept(t) ==
    /\ thr[t].role = "capture" /\ thr[t].pc = "pool_done"
    /\ held' = held
    /\ thr' = IF thr[t].cat < NCats
              THEN [thr EXCEPT ![t].cat = @ + 1, ![t].pc = "pool"]
              ELSE Goto(t, "done")
    /\ UNCHANGED <<pool, acquired>>
    /\ UNCHANGED seqVars

(* the statement / loop ends: the pool guard is dropped *)
CapUnlockPool(t) ==
    /\ thr[t].role = "capture" /\ thr[t].pc = "pool_done"
    /\ held' = Pop(t)
    /\ thr' = IF thr[t].cat < NCats
              THEN [thr EXCEPT ![t].cat = @ + 1, ![t].pc = "pool"]
              ELSE Goto(t, "done")
    /\ UNCHANGED <<pool, acquired>>
    /\ UNCHANGED seqVars

(* ---- to_runtime, lines 294-342 ---- *)

(* lines 295-299: the right-hand side is collected first; unwrap panics *)
ApplyCollectColors(t) ==
    /\ thr[t].role = "apply" /\ thr[t].pc = "collect"
    /\ thr' = IF \A i \in 1..Len(thr[t].self.colors) : Elem(<<t, "colors", i>>).ok
              THEN [thr EXCEPT ![t].built = NewList(thr[t].self, t, "colors"),
                               ![t].pc = "lock"]
              ELSE Goto(t, "panicked")
    /\ UNCHANGED <<pool, held, acquired>>
    /\ UNCHANGED seqVars

(* to_image / to_tilemap / ... : Image::new(), then image.lock() *)
ApplyNewElem(t) ==
    /\ thr[t].role = "apply" /\ thr[t].pc = "new"
    /\ LET e == <<t, Cat(t), thr[t].i>> IN
         /\ Free(ElemLock(e))
         /\ held' = Push(t, ElemLock(e))
    /\ thr' = Goto(t, "fill")
    /\ UNCHANGED <<pool, acquired>>
    /\ UNCHANGED seqVars

(* mutant: each element is pushed into the pool as soon as it is built, under
   a pool lock acquisition of its own *)
ApplyFillElem_pushToPool(t) ==
    /\ thr[t].role = "apply" /\ thr[t].pc = "fill"
    /\ Free(PoolLock(Cat(t)))
    /\ held' = Pop(t)
    /\ pool' = [pool EXCEPT ![Cat(t)] = Append(@, <<t, Cat(t), thr[t].i>>)]
    /\ thr' = [thr EXCEPT
                  ![t].built = Append(@, <<t, Cat(t), thr[t].i>>),
                  ![t].i = @ + 1,
                  ![t].pc = IF thr[t].i < Len(thr[t].self[Cat(t)])
                            THEN "new" ELSE "lock"]
    /\ UNCHANGED acquired
    /\ UNCHANGED seqVars

(* the fields are written and the element guard dropped; the element is
   pushed on the local vector.  Noise::from_index (to_waveform) and chunk[1]
   (to_tilemap) panic inside the guard's scope: unwinding drops the guard. *)
ApplyFillElem(t) ==
    /\ thr[t].role = "apply" /\ thr[t].pc = "fill"
    /\ held' = Pop(t)
    /\ thr' = IF ~Elem(<<t, Cat(t), thr[t].i>>).ok
              THEN Goto(t, "panicked")
              ELSE [thr EXCEPT
                      ![t].built = Append(@, <<t, Cat(t), thr[t].i>>),
                      ![t].i = @ + 1,
                      ![t].pc = IF thr[t].i < Len(thr[t].self[Cat(t)])
                                THEN "new" ELSE "lock"]
    /\ UNCHANGED <<pool, acquired>>
    /\ UNCHANGED seqVars

(* pyxel.<category>.lock(), once the new list is complete *)
ApplyLockPool(t) ==
    /\ thr[t].role = "apply" /\ thr[t].pc = "lock"
    /\ Free(PoolLock(Cat(t)))
    /\ held' = Push(t, PoolLock(Cat(t)))
    /\ acquired' = [acquired EXCEPT ![t][Cat(t)] = @ + 1]
    /\ thr' = Goto(t, "assign")
    /\ UNCHANGED pool
    /\ UNCHANGED seqVars

(* mutant: the pool guard is never dropped *)
ApplyAssign_noUnlock(t) ==
    /\ thr[t].role = "apply" /\ thr[t].pc = "assign"
    /\ pool' = [pool EXCEPT ![Cat(t)] = thr[t].built]
    /\ held' = held
    /\ LET n == Enter(thr[t].self, thr[t].flags, thr[t].cat + 1) IN
         thr' = [thr EXCEPT ![t].cat = n.cat, ![t].pc = n.pc, ![t].i = 1,
                            ![t].built = <<>>]
    /\ UNCHANGED acquired
    /\ UNCHANGED seqVars

(* *guard = list; the guard is dropped at the end of the statement *)
ApplyAssign(t) ==
    /\ thr[t].role = "apply" /\ thr[t].pc = "assign"
    /\ pool' = [pool EXCEPT ![Cat(t)] = thr[t].built]
    /\ held' = Pop(t)
    /\ LET n == Enter(thr[t].self, thr[t].flags, thr[t].cat + 1) IN
         thr' = [thr EXCEPT ![t].cat = n.cat, ![t].pc = n.pc, ![t].i = 1,
                            ![t].built = <<>>]
    /\ UNCHANGED acquired
    /\ UNCHANGED seqVars

(* the next step of thread t *)
Step(t) ==
    \/ CapLockPool(t)
    \/ CapLockElem(t)
    \/ CapLockSeq(t)
    \/ CapUnlockSeq(t)
    \/ CapUnlockElem(t)
    \/ CapUnwindPool(t)
    \/ CapUnlockPool(t)
    \/ ApplyCollectColors(t)
    \/ ApplyNewElem(t)
    \/ ApplyFillElem(t)
    \/ ApplyLockPool(t)
    \/ ApplyAssign(t)

ThreadInit(role, self, f, n) ==
    [role |-> role, self |-> self, flags |-> f, scenario |-> n,
     cat |-> IF role = "apply" THEN Enter(self, f, 1).cat ELSE 1,
     pc |-> IF role = "apply" THEN Enter(self, f, 1).pc ELSE "pool",
     i |-> 1, j |-> 1, built |-> <<>>, seen |-> <<>>,
     out |-> EmptyData(RESOURCE_FORMAT_VERSION)]

InitConc ==
    /\ pyxel = Runtime0
    /\ snap = EmptyData(RESOURCE_FORMAT_VERSION)
    /\ text = <<>>
    /\ last = NoCall(Runtime0, EmptyData(RESOURCE_FORMAT_VERSION))
    /\ peer = NoCall(Runtime0, EmptyData(RESOURCE_FORMAT_VERSION))
    /\ capturedFrom = <<>>
    /\ nops = 0
    /\ rendered = <<>>
    /\ pool = InitPool
    /\ held = [t \in Threads |-> <<>>]
    /\ acquired = [t \in Threads |-> [c \in Categories |-> 0]]
    /\ \E n \in 1..Len(ConcScenarios) :
          thr = [t \in Threads |->
                   IF t \in ApplyThreads
                   THEN ThreadInit("apply", ConcScenarios[n][ArgOf(t)].self,
                                   ConcScenarios[n][ArgOf(t)].flags, n)
                   ELSE ThreadInit("capture", EmptyData(RESOURCE_FORMAT_VERSION),
                                   AllFalse, n)]

NextConc ==
    \/ \E t \in Threads : CapLockPool(t)
    \/ \E t \in Threads : CapLockElem(t)
    \/ \E t \in Threads : CapLockSeq(t)
    \/ \E t \in Threads : CapUnlockSeq(t)
    \/ \E t \in Threads : CapUnlockElem(t)
    \/ \E t \in Threads : CapUnwindPool(t)
    \/ \E t \in Threads : CapUnlockPool(t)
    \/ \E t \in Threads : ApplyCollectColors(t)
    \/ \E t \in Threads : ApplyNewElem(t)
    \/ \E t \in Threads : ApplyFillElem(t)
    \/ \E t \in Threads : ApplyLockPool(t)
    \/ \E t \in Threads : ApplyAssign(t)

SpecConc == InitConc /\ [][NextConc]_vars

(* every thread that can take a step eventually takes one *)
FairConc == SpecConc /\ \A t \in Threads : WF_vars(Step(t))

----------------------------------------------------------------------------
(* Properties of the concurrent runs *)

Finished(t) == thr[t].pc \in {"done", "panicked"}

AllDone == \A t \in Threads : Finished(t)

(* the lists a pool can hold as a whole: the initial one, or all the
   elements one to_runtime call built for it *)
CompleteLists(c) ==
    {InitPool[c]} \cup {NewList(thr[t].self, t, c) : t \in ApplyThreads}

HoldsPool(t, c) == PoolLock(c) \in Range(held[t])

(* C5: whoever takes a pool lock sees the complete old or the complete new
   list: a pool not locked by a to_runtime call holds a complete list, every
   list from_runtime read under the pool lock is complete, the new list is
   fully built when to_runtime takes the pool lock, and it takes that lock
   once per replaced category. *)
C5_AtomicReplace ==
    /\ \A c \in Categories :
          (\A t \in ApplyThreads : ~HoldsPool(t, c)) => pool[c] \in CompleteLists(c)
    /\ \A t \in CaptureThreads : \A k \in 1..Len(thr[t].seen) :
          thr[t].seen[k].list \in CompleteLists(thr[t].seen[k].cat)
    /\ \A t \in ApplyThreads :
          /\ thr[t].pc = "assign" => thr[t].built = NewList(thr[t].self, t, Cat(t))
          /\ \A c \in Categories : acquired[t][c] <= 1
          /\ thr[t].pc = "done" =>
                \A c \in Categories : acquired[t][c] = 1 <=> Wanted(t, c)

C5_Witness ==
    /\ thr["cap"].pc = "done"
    /\ \E k \in 1..Len(thr["cap"].seen) :
          /\ thr["cap"].seen[k].cat = "images"
          /\ thr["cap"].seen[k].list = NewList(thr["app1"].self, "app1", "images")
          /\ Len(thr["cap"].seen[k].list) = 2
    /\ pool["images"] = NewList(thr["app2"].self, "app2", "images")
    /\ acquired["app1"]["images"] = 1

IsPoolLock(l) == l[1] = "pool"
IsElemLock(l) == l[1] = "elem"
IsSeqLock(l) == l[1] = "seq"

(* C9 as stated: from_runtime holds at most one lock, or exactly two: a pool
   lock and the lock of one element of that pool; never three or more. *)
C9_AtMostTwoLocks ==
    \A t \in CaptureThreads :
        /\ Len(held[t]) <= 2
        /\ Len(held[t]) >= 1 => IsPoolLock(held[t][1])
        /\ Len(held[t]) = 2 =>
              /\ IsElemLock(held[t][2])
              /\ held[t][2][2] \in Range(pool[held[t][1][2]])

(* C9 amended: from_runtime holds at most three locks, nested pool, then one
   element of that pool, then (musics only) one sub-sequence of that element;
   a pool lock is only ever taken while no other lock is held. *)
C9_NestedLocks ==
    \A t \in CaptureThreads :
        /\ Len(held[t]) <= 3
        /\ Len(held[t]) >= 1 => IsPoolLock(held[t][1])
        /\ Len(held[t]) >= 2 =>
              /\ IsElemLock(held[t][2])
              /\ held[t][2][2] \in Range(pool[held[t][1][2]])
        /\ Len(held[t]) = 3 =>
              /\ held[t][1] = PoolLock("musics")
              /\ IsSeqLock(held[t][3])
              /\ held[t][3][2] = held[t][2][2]

C9_Witness ==
    /\ Len(held["cap"]) = 3
    /\ held["cap"][1] = PoolLock("musics")
    /\ IsElemLock(held["cap"][2])
    /\ held["cap"][2][2][1] = "app1"
    /\ IsSeqLock(held["cap"][3])

(* a thread that is neither finished nor able to step is blocked *)
Blocked(t) == ~Finished(t) /\ ~ENABLED Step(t)

(* C10: from_runtime and to_runtime calls running together never deadlock:
   while a call is unfinished some call can step; to_runtime locks only
   elements it created, which are in no pool, and holds none of them when it
   takes a pool lock; under fair scheduling every call finishes. *)
C10_NoDeadlock ==
    /\ [](~AllDone => \E t \in Threads : ~Finished(t) /\ ~Blocked(t))
    /\ [](\A t \in ApplyThreads : \A k \in 1..Len(held[t]) :
            /\ IsElemLock(held[t][k]) =>
                  /\ Len(held[t]) = 1
                  /\ held[t][k][2][1] = t
                  /\ \A c \in Categories : held[t][k][2] \notin Range(pool[c])
            /\ IsPoolLock(held[t][k]) => Len(held[t]) = 1)
    /\ <>[]AllDone

C10_Witness ==
    /\ AllDone
    /\ \A t \in Threads : held[t] = <<>>
    /\ thr["app1"].pc = "panicked"
    /\ thr["app2"].pc = "done"
    /\ thr["cap"].pc = "done"
    /\ pool["musics"] = NewList(thr["app2"].self, "app2", "musics")
    /\ \E k \in 1..Len(thr["cap"].seen) :
          thr["cap"].seen[k] = [cat |-> "musics", list |-> InitPool["musics"]]

=============================================================================
